---- MODULE Spec2Model ----
(***************************************************************************)
(* A model of SpellingBee.py: the letter parser, the word validator, the   *)
(* scorer, the finder (plain and diagnostic path), the dictionary loader   *)
(* and the command-line run that wires them together.                      *)
(*                                                                         *)
(* A character is a one-character string; its code point is given by Ord.  *)
(* A Python str is a sequence of characters.  A frequency (Zipf) value is  *)
(* an integer number of tenths, so 35 stands for 3.5.                      *)
(***************************************************************************)
EXTENDS Integers, Sequences, FiniteSets, TLC

VARIABLES
    pc,          \* position of the run / of the function under application
    args,        \* the parsed command line (argparse namespace)
    env,         \* what the run finds outside itself: file, wordfreq corpus
    parsed,      \* what parse_letters returned or raised
    cfg,         \* the BeeConfig
    min_zipf,    \* the threshold main hands to load_dictionary
    zipf_filter, \* whether line 41 (the threshold filter) was executed
    words,       \* the candidate word list
    pos,         \* number of candidates the diagnostic loop has processed
    stages,      \* diagnostic Counter
    samples,     \* diagnostic example words per bucket
    survivors,   \* diagnostic accumulator of accepted entries
    results,     \* what find_words returned
    verdict,     \* what is_valid_word returned for the candidate of a one-word run
    pts,         \* what score_word returned for the candidate of a one-word run
    stdout,      \* lines printed, as tagged records
    exit_code    \* process exit status

vars == <<pc, args, env, parsed, cfg, min_zipf, zipf_filter, words, pos, stages,
          samples, survivors, results, verdict, pts, stdout, exit_code>>

\* An Optional value is a sequence: None is <<>>, a value x is <<x>>.
None == <<>>
Some(x) == <<x>>

----------------------------------------------------------------------------
(* Characters and the str methods the program uses (ASCII).                *)

LowerLetters == <<"a","b","c","d","e","f","g","h","i","j","k","l","m",
                  "n","o","p","q","r","s","t","u","v","w","x","y","z">>
UpperLetters == <<"A","B","C","D","E","F","G","H","I","J","K","L","M",
                  "N","O","P","Q","R","S","T","U","V","W","X","Y","Z">>
Digits == <<"0","1","2","3","4","5","6","7","8","9">>

IndexIn(c, tbl) == IF \E i \in DOMAIN tbl : tbl[i] = c
                   THEN CHOOSE i \in DOMAIN tbl : tbl[i] = c
                   ELSE 0

\* ord(c)
Ord(c) ==
    IF IndexIn(c, LowerLetters) > 0 THEN 96 + IndexIn(c, LowerLetters)
    ELSE IF IndexIn(c, UpperLetters) > 0 THEN 64 + IndexIn(c, UpperLetters)
    ELSE IF IndexIn(c, Digits) > 0 THEN 47 + IndexIn(c, Digits)
    ELSE IF c = " " THEN 32
    ELSE 45  \* "-"

CharIsUpper(c) == IndexIn(c, UpperLetters) > 0
CharIsLower(c) == IndexIn(c, LowerLetters) > 0
CharIsAlpha(c) == CharIsUpper(c) \/ CharIsLower(c)
CharIsSpace(c) == c = " "
CharLower(c) == IF CharIsUpper(c) THEN LowerLetters[IndexIn(c, UpperLetters)] ELSE c

\* str.lower()
StrLower(s) == [i \in 1..Len(s) |-> CharLower(s[i])]
\* str.isalpha(): non-empty and every character alphabetic
StrIsAlpha(s) == Len(s) > 0 /\ \A i \in 1..Len(s) : CharIsAlpha(s[i])
\* str.islower(): at least one cased character and no uppercase character
StrIsLower(s) == /\ \E i \in 1..Len(s) : CharIsLower(s[i])
                 /\ \A i \in 1..Len(s) : ~CharIsUpper(s[i])
\* set(s)
StrSet(s) == {s[i] : i \in 1..Len(s)}

\* str.strip()
RECURSIVE LStrip(_)
LStrip(s) == IF Len(s) > 0 /\ CharIsSpace(s[1]) THEN LStrip(Tail(s)) ELSE s
RECURSIVE RStrip(_)
RStrip(s) == IF Len(s) > 0 /\ CharIsSpace(s[Len(s)])
             THEN RStrip(SubSeq(s, 1, Len(s) - 1)) ELSE s
StrStrip(s) == RStrip(LStrip(s))

\* s < t for two str: by code point, a proper prefix is smaller
RECURSIVE StrLess(_, _)
StrLess(s, t) ==
    IF Len(t) = 0 THEN FALSE
    ELSE IF Len(s) = 0 THEN TRUE
    ELSE IF Ord(s[1]) # Ord(t[1]) THEN Ord(s[1]) < Ord(t[1])
    ELSE StrLess(Tail(s), Tail(t))

----------------------------------------------------------------------------
(* parse_letters                                                           *)

\* The outcomes of parse_letters: the ValueError it raises, or the pair it returns.
ValueError(msg) == [ok |-> FALSE, error |-> msg]
Letters(required, opt_set) == [ok |-> TRUE, required |-> required, optional |-> opt_set]

\* parse_letters without the check of line 132
ParseLettersNoDupCheck(required, optional) ==
    LET req == StrLower(required)
        opt == StrLower(optional)
    IN  IF Len(req) # 1 \/ ~StrIsAlpha(req)
        THEN ValueError("Required must be a single letter A-Z.")
        ELSE IF Len(opt) # 6 \/ ~StrIsAlpha(opt)
        THEN ValueError("Optional must be exactly 5 letters A-Z.")
        ELSE IF Cardinality(StrSet(opt)) # 6
        THEN ValueError("Optional letters must be 5 distinct letters.")
        ELSE Letters(req[1], StrSet(opt))

\* parse_letters without the check of line 134
ParseLettersNoDistinctCheck(required, optional) ==
    LET req == StrLower(required)
        opt == StrLower(optional)
    IN  IF Len(req) # 1 \/ ~StrIsAlpha(req)
        THEN ValueError("Required must be a single letter A-Z.")
        ELSE IF Len(opt) # 6 \/ ~StrIsAlpha(opt)
        THEN ValueError("Optional must be exactly 5 letters A-Z.")
        ELSE IF req[1] \in StrSet(opt)
        THEN ValueError("Required letter must not be among the 5 optional letters.")
        ELSE Letters(req[1], StrSet(opt))

\* parse_letters without the lowercasing of lines 125-126
ParseLettersNoLower(required, optional) ==
    IF Len(required) # 1 \/ ~StrIsAlpha(required)
    THEN ValueError("Required must be a single letter A-Z.")
    ELSE IF Len(optional) # 6 \/ ~StrIsAlpha(optional)
    THEN ValueError("Optional must be exactly 5 letters A-Z.")
    ELSE IF required[1] \in StrSet(optional)
    THEN ValueError("Required letter must not be among the 5 optional letters.")
    ELSE IF Cardinality(StrSet(optional)) # 6
    THEN ValueError("Optional letters must be 5 distinct letters.")
    ELSE Letters(required[1], StrSet(optional))

ParseLetters(required, optional) ==
    LET req == StrLower(required)
        opt == StrLower(optional)
        opt_set == StrSet(opt)
    IN  IF Len(req) # 1 \/ ~StrIsAlpha(req)
        THEN ValueError("Required must be a single letter A-Z.")
        ELSE IF Len(opt) # 6 \/ ~StrIsAlpha(opt)
        THEN ValueError("Optional must be exactly 5 letters A-Z.")
        ELSE IF req[1] \in opt_set
        THEN ValueError("Required letter must not be among the 5 optional letters.")
        ELSE IF Cardinality(opt_set) # 6
        THEN ValueError("Optional letters must be 5 distinct letters.")
        ELSE Letters(req[1], opt_set)

\* BeeConfig(required, optional, min_len, allow_proper_nouns)
BeeConfig(required, optional, min_len, allow_proper_nouns) ==
    [required |-> required, optional |-> optional, min_len |-> min_len,
     allow_proper_nouns |-> allow_proper_nouns]

\* BeeConfig.alphabet
Alphabet(c) == {c.required} \cup c.optional

----------------------------------------------------------------------------
(* is_valid_word, score_word                                               *)

\* w[0] of an empty str raises IndexError; a normal return is a pair
IndexError == <<"IndexError">>
Raised(v) == Len(v) = 1

\* line 48: not cfg.allow_proper_nouns and (w[0].isupper() or not w.islower())
CaseRejected(w, c) ==
    ~c.allow_proper_nouns /\ (CharIsUpper(w[1]) \/ ~StrIsLower(w))

\* is_valid_word without the check of lines 53-54
IsValidWordNoRequiredCheck(w, c) ==
    IF Len(w) < c.min_len THEN <<FALSE, FALSE>>
    ELSE IF ~c.allow_proper_nouns /\ Len(w) = 0 THEN IndexError
    ELSE IF CaseRejected(w, c) THEN <<FALSE, FALSE>>
    ELSE IF ~StrIsAlpha(w) THEN <<FALSE, FALSE>>
    ELSE IF ~(StrSet(w) \subseteq Alphabet(c)) THEN <<FALSE, FALSE>>
    ELSE <<TRUE, Alphabet(c) \subseteq StrSet(w)>>

\* is_valid_word with the inclusion of line 57 turned around
IsValidWordPangramSubset(w, c) ==
    IF Len(w) < c.min_len THEN <<FALSE, FALSE>>
    ELSE IF ~c.allow_proper_nouns /\ Len(w) = 0 THEN IndexError
    ELSE IF CaseRejected(w, c) THEN <<FALSE, FALSE>>
    ELSE IF ~StrIsAlpha(w) THEN <<FALSE, FALSE>>
    ELSE IF c.required \notin StrSet(w) THEN <<FALSE, FALSE>>
    ELSE IF ~(StrSet(w) \subseteq Alphabet(c)) THEN <<FALSE, FALSE>>
    ELSE <<TRUE, StrSet(w) \subseteq Alphabet(c)>>

IsValidWord(w, c) ==
    IF Len(w) < c.min_len THEN <<FALSE, FALSE>>
    ELSE IF ~c.allow_proper_nouns /\ Len(w) = 0 THEN IndexError
    ELSE IF CaseRejected(w, c) THEN <<FALSE, FALSE>>
    ELSE IF ~StrIsAlpha(w) THEN <<FALSE, FALSE>>
    ELSE IF c.required \notin StrSet(w) THEN <<FALSE, FALSE>>
    ELSE IF ~(StrSet(w) \subseteq Alphabet(c)) THEN <<FALSE, FALSE>>
    ELSE <<TRUE, Alphabet(c) \subseteq StrSet(w)>>

\* score_word without lines 62-63
ScoreWordNoBonus(w, is_pangram, base_min_len) ==
    IF Len(w) = base_min_len THEN 1 ELSE Len(w)

ScoreWord(w, is_pangram, base_min_len) ==
    LET base == IF Len(w) = base_min_len THEN 1 ELSE Len(w)
    IN  IF is_pangram THEN base + 7 ELSE base

----------------------------------------------------------------------------
(* find_words                                                              *)

\* An entry of the result list is the tuple (w, pang, score).
\* The sort key of lines 73 and 111: (not t[1], -t[2], t[0])
BoolOrd(b) == IF b THEN 1 ELSE 0

\* the key without the minus sign
SortKeyAscendingScore(t) == <<BoolOrd(~t[2]), t[3], t[1]>>

SortKey(t) == <<BoolOrd(~t[2]), -t[3], t[1]>>

\* Python's tuple comparison k1 < k2 on two sort keys
KeyLess(k1, k2) ==
    IF k1[1] # k2[1] THEN k1[1] < k2[1]
    ELSE IF k1[2] # k2[2] THEN k1[2] < k2[2]
    ELSE StrLess(k1[3], k2[3])

\* list.sort(key=...): a stable sort; t goes behind every entry whose key is
\* not greater than its own
RECURSIVE InsertByKey(_, _)
InsertByKey(sorted, t) ==
    IF Len(sorted) = 0 THEN <<t>>
    ELSE IF KeyLess(SortKey(t), SortKey(sorted[1])) THEN <<t>> \o sorted
    ELSE <<sorted[1]>> \o InsertByKey(Tail(sorted), t)

RECURSIVE SortEntries(_)
SortEntries(l) ==
    IF Len(l) = 0 THEN <<>>
    ELSE InsertByKey(SortEntries(SubSeq(l, 1, Len(l) - 1)), l[Len(l)])

\* lines 68-72: the plain loop, out in list order
RECURSIVE PlainLoop(_, _)
PlainLoop(c, ws) ==
    IF Len(ws) = 0 THEN <<>>
    ELSE LET w == ws[1]
             v == IsValidWord(w, c)
             rest == PlainLoop(c, Tail(ws))
         IN  IF v[1] THEN <<<<w, v[2], ScoreWord(w, v[2], c.min_len)>>>> \o rest
             ELSE rest

\* the plain loop ends in an exception when is_valid_word raises on a word
PlainRaises(c, ws) == \E i \in 1..Len(ws) : Raised(IsValidWord(ws[i], c))

\* lines 67-74: find_words(cfg, words, debug=False)
FindWordsPlain(c, ws) == SortEntries(PlainLoop(c, ws))

Buckets == {"too_short", "not_lower_or_alpha", "missing_required",
            "uses_outside_letters", "ok"}
BucketOrder == <<"too_short", "not_lower_or_alpha", "missing_required",
                 "uses_outside_letters", "ok">>

\* the diagnostic checks with the second and the third in the other order
DebugStageRequiredFirst(w, c) ==
    IF Len(w) < c.min_len THEN "too_short"
    ELSE IF c.required \notin StrSet(w) THEN "missing_required"
    ELSE IF ~StrIsAlpha(w) \/ CaseRejected(w, c) THEN "not_lower_or_alpha"
    ELSE IF ~(StrSet(w) \subseteq Alphabet(c)) THEN "uses_outside_letters"
    ELSE "ok"

\* lines 85-109: the bucket the diagnostic loop puts w in
DebugStage(w, c) ==
    IF Len(w) < c.min_len THEN "too_short"
    ELSE IF ~StrIsAlpha(w) \/ CaseRejected(w, c) THEN "not_lower_or_alpha"
    ELSE IF c.required \notin StrSet(w) THEN "missing_required"
    ELSE IF ~(StrSet(w) \subseteq Alphabet(c)) THEN "uses_outside_letters"
    ELSE "ok"

\* "if len(samples[k]) < 10: samples[k].append(w)"
KeepSample(smp, k, w) ==
    IF Len(smp[k]) < 10 THEN [smp EXCEPT ![k] = Append(@, w)] ELSE smp

NoStages == [k \in Buckets |-> 0]
NoSamples == [k \in Buckets |-> <<>>]

\* find_words(cfg, words, debug=False), lines 67-74
FindPlain ==
    /\ pc = "find"
    /\ ~args.debug
    /\ IF PlainRaises(cfg, words)
       THEN /\ results' = None
            /\ pc' = "raised"
            /\ exit_code' = Some(1)
       ELSE /\ results' = FindWordsPlain(cfg, words)
            /\ pc' = "found"
            /\ exit_code' = exit_code
    /\ UNCHANGED <<args, env, parsed, cfg, min_zipf, zipf_filter, words, pos,
                   stages, samples, survivors, verdict, pts, stdout>>

\* one iteration of the diagnostic loop, lines 84-109
DebugClassify ==
    /\ pc = "find"
    /\ args.debug
    /\ pos < Len(words)
    /\ LET w == words[pos + 1]
           k == DebugStage(w, cfg)
           pang == Alphabet(cfg) \subseteq StrSet(w)
       IN  /\ stages' = [stages EXCEPT ![k] = @ + 1]
           /\ samples' = KeepSample(samples, k, w)
           /\ survivors' = IF k = "ok"
                           THEN Append(survivors,
                                       <<w, pang, ScoreWord(w, pang, cfg.min_len)>>)
                           ELSE survivors
    /\ pos' = pos + 1
    /\ UNCHANGED <<pc, args, env, parsed, cfg, min_zipf, zipf_filter, words,
                   results, verdict, pts, stdout, exit_code>>

\* Sum of the Counter's values, line 115
StagesTotal(st) ==
    st["too_short"] + st["not_lower_or_alpha"] + st["missing_required"]
        + st["uses_outside_letters"] + st["ok"]

\* after the loop: sort, print the summary, return; lines 111-122
DebugFinish ==
    /\ pc = "find"
    /\ args.debug
    /\ pos = Len(words)
    /\ survivors' = SortEntries(survivors)
    /\ stdout' = stdout \o
           <<[tag |-> "DEBUG summary:", total |-> StagesTotal(stages),
              counts |-> [i \in 1..5 |-> stages[BucketOrder[i]]],
              examples |-> [i \in 1..5 |-> samples[BucketOrder[i]]]]>>
    /\ results' = survivors'
    /\ pc' = "found"
    /\ UNCHANGED <<args, env, parsed, cfg, min_zipf, zipf_filter, words, pos,
                   stages, samples, verdict, pts, exit_code>>

----------------------------------------------------------------------------
(* load_dictionary                                                         *)

FALLBACK_WORDS ==
    << <<"a","b","l","e">>, <<"b","a","l","e">>, <<"b","a","l","l">>,
       <<"b","e","l","l">>, <<"l","a","b","e","l">>, <<"b","e","l","l","y">>,
       <<"c","a","b","l","e">>, <<"c","a","l","l">>, <<"c","e","l","l">>,
       <<"c","l","a","y">>, <<"a","l","l","y">>, <<"l","a","y">>,
       <<"l","a","b">>, <<"l","a","c","e">> >>

\* The word-list files of the model, by path; a path not listed cannot be opened.
\* NoPath is --dict left out (None).
NoPath == ""
Paths == {"words.txt", "mixed.txt"}
FileLines(path) ==
    IF path = "words.txt"
    THEN << <<"b","e","a","d">>, <<"f","a","c","e","d">>, <<"c","a","b">>,
            <<"a","b","c","d","e","f","g">>, <<"h","e","a","d">> >>
    ELSE << <<" ","B","e","a","d"," ">>, <<>>, <<" "," ">>, <<"d","e","a","f">>,
            <<"a","-","b","c">>, <<"d","e","a","f">> >>

\* wordfreq's ranked English list, most frequent first, with each token's Zipf
\* frequency in tenths
Corpus ==
    << [w |-> <<"b","e","a","d">>, zipf |-> 42],
       [w |-> <<"a","1">>, zipf |-> 40],
       [w |-> <<"f","a","c","e","d">>, zipf |-> 38],
       [w |-> <<"c","a","f","e">>, zipf |-> 35],
       [w |-> <<"d","e","c","a","f">>, zipf |-> 21],
       [w |-> <<"a","b","e","d">>, zipf |-> 8] >>

\* top_n_list("en", n_top)
TopNList(n_top) ==
    LET n == IF n_top < 0 THEN 0 ELSE IF n_top > Len(Corpus) THEN Len(Corpus) ELSE n_top
    IN  [i \in 1..n |-> Corpus[i].w]

\* zipf_frequency(w, "en"): 0 for a token wordfreq does not know
ZipfFrequency(w) ==
    IF \E i \in 1..Len(Corpus) : Corpus[i].w = w
    THEN Corpus[CHOOSE i \in 1..Len(Corpus) : Corpus[i].w = w].zipf
    ELSE 0

\* lines 22-27: the words of a file (SelectSeq is the list comprehension's if)
FileWords(lines) ==
    LET NonBlank(x) == Len(x) > 0
    IN  SelectSeq([i \in 1..Len(lines) |-> StrLower(StrStrip(lines[i]))], NonBlank)

\* line 154: None if args.min_zipf and args.min_zipf <= 0 else args.min_zipf
MinZipfArg(arg) == IF arg # 0 /\ arg <= 0 THEN None ELSE Some(arg)

\* lines 39-41: the words taken from wordfreq
WordfreqWords(n_top, mz) ==
    LET alpha == SelectSeq(TopNList(n_top), StrIsAlpha)
        Frequent(x) == ZipfFrequency(x) >= mz[1]
    IN  IF mz # None THEN SelectSeq(alpha, Frequent) ELSE alpha

----------------------------------------------------------------------------
(* main                                                                    *)

\* lines 151-152: parse_letters, then the BeeConfig
ParseArgs ==
    /\ pc = "start"
    /\ parsed' = ParseLetters(args.required, args.optional)
    /\ IF parsed'.ok
       THEN /\ cfg' = BeeConfig(parsed'.required, parsed'.optional, args.min_len,
                                args.allow_proper_nouns)
            /\ pc' = "load"
            /\ exit_code' = exit_code
       ELSE /\ cfg' = cfg
            /\ pc' = "raised"
            /\ exit_code' = Some(1)
    /\ UNCHANGED <<args, env, min_zipf, zipf_filter, words, pos, stages, samples,
                   survivors, results, verdict, pts, stdout>>

LoadCommon ==
    /\ pc = "load"
    /\ min_zipf' = MinZipfArg(args.min_zipf)
    /\ UNCHANGED <<args, env, parsed, cfg, pos, stages, samples, survivors,
                   results, verdict, pts>>

\* lines 21-29: a path is given and the file opens
LoadFile ==
    /\ LoadCommon
    /\ args.dict \in Paths
    /\ words' = FileWords(FileLines(args.dict))
    /\ stdout' = Append(stdout, [tag |-> "[INFO] Loaded from file", n |-> Len(words'),
                                 path |-> args.dict])
    /\ pc' = "find"
    /\ UNCHANGED <<zipf_filter, exit_code>>

\* line 23: open() raises, the error propagates
LoadFileError ==
    /\ LoadCommon
    /\ args.dict # NoPath
    /\ args.dict \notin Paths
    /\ pc' = "raised"
    /\ exit_code' = Some(1)
    /\ UNCHANGED <<zipf_filter, words, stdout>>

\* lines 31-36: no path, wordfreq cannot be imported
LoadFallback ==
    /\ LoadCommon
    /\ args.dict = NoPath
    /\ ~env.wordfreq
    /\ words' = [i \in 1..Len(FALLBACK_WORDS) |-> StrLower(FALLBACK_WORDS[i])]
    /\ stdout' = Append(stdout, [tag |-> "[WARN] wordfreq not installed. Using FALLBACK",
                                 n |-> Len(words')])
    /\ pc' = "find"
    /\ UNCHANGED <<zipf_filter, exit_code>>

\* lines 38-43: no path, wordfreq is there
LoadWordfreq ==
    /\ LoadCommon
    /\ args.dict = NoPath
    /\ env.wordfreq
    /\ words' = WordfreqWords(args.n_top, min_zipf')
    /\ zipf_filter' = (min_zipf' # None)
    /\ stdout' = Append(stdout, [tag |-> "[INFO] Loaded from wordfreq", n |-> Len(words'),
                                 n_top |-> args.n_top, min_zipf |-> min_zipf'])
    /\ pc' = "find"
    /\ UNCHANGED exit_code

\* sorted(set of characters), joined
RECURSIVE SortedChars(_)
SortedChars(S) ==
    IF S = {} THEN <<>>
    ELSE LET m == CHOOSE x \in S : \A y \in S : Ord(x) <= Ord(y)
         IN  <<m>> \o SortedChars(S \ {m})

RECURSIVE SumScores(_)
SumScores(l) == IF Len(l) = 0 THEN 0 ELSE l[1][3] + SumScores(Tail(l))

\* lines 158-179
Report ==
    /\ pc = "found"
    /\ IF Len(results) = 0
       THEN stdout' = Append(stdout, [tag |-> "No matches found."])
       ELSE LET IsPang(t) == t[2]
                pangrams == SelectSeq(results, IsPang)
                head == << [tag |-> "Required/Optional/Min length",
                            required |-> cfg.required,
                            optional |-> SortedChars(cfg.optional),
                            min_len |-> cfg.min_len],
                           [tag |-> "Alphabet",
                            alphabet |-> SortedChars(Alphabet(cfg))],
                           [tag |-> "Loaded/Found/Pangrams/Total score",
                            loaded |-> Len(words), found |-> Len(results),
                            pangrams |-> Len(pangrams),
                            total_score |-> SumScores(results)] >>
                pang == IF Len(pangrams) > 0
                        THEN <<[tag |-> "Pangrams:"]>> \o
                             [i \in 1..Len(pangrams) |->
                                [tag |-> "pangram", w |-> pangrams[i][1],
                                 s |-> pangrams[i][3]]]
                        ELSE <<>>
                all == <<[tag |-> "All matches:"]>> \o
                       [i \in 1..Len(results) |->
                          [tag |-> "match", w |-> results[i][1],
                           flag |-> results[i][2], s |-> results[i][3]]]
            IN  stdout' = stdout \o head \o pang \o all
    /\ pc' = "done"
    /\ exit_code' = Some(0)
    /\ UNCHANGED <<args, env, parsed, cfg, min_zipf, zipf_filter, words, pos,
                   stages, samples, survivors, results, verdict, pts>>

\* lines 70-72: one candidate through is_valid_word and, if accepted, score_word
ValidateWord ==
    /\ pc = "word"
    /\ verdict' = IsValidWord(words[1], cfg)
    /\ IF Raised(verdict')
       THEN /\ pts' = None
            /\ pc' = "raised"
       ELSE /\ pts' = IF verdict'[1]
                      THEN Some(ScoreWord(words[1], verdict'[2], cfg.min_len))
                      ELSE None
            /\ pc' = "scored"
    /\ UNCHANGED <<args, env, parsed, cfg, min_zipf, zipf_filter, words, pos,
                   stages, samples, survivors, results, stdout, exit_code>>

----------------------------------------------------------------------------
(* Inputs                                                                  *)

MaxReqLen == 2      \* longest --required string tried by the parser runs
MaxShortLen == 2    \* longest exhaustively enumerated candidate word
MaxWords == 3       \* longest exhaustively enumerated candidate list
MaxOverflow == 1    \* how far a run of one word goes past the sample cap

\* all str over the characters C of length lo..hi
StrsOver(C, lo, hi) == UNION {[1..n -> C] : n \in lo..hi}

ReqChars == {"a", "b", "h", "A", "B", "1"}
ReqInputs == StrsOver(ReqChars, 0, MaxReqLen)

OptBase == <<"b","c","d","e","f","g">>
OptChars == {"a", "b", "h", "B", "1"}
\* OptBase with up to two characters replaced, cut to five characters, grown to
\* seven, the empty string, and "bbcdef"
OptInputs ==
    {[OptBase EXCEPT ![i] = c, ![j] = d] :
        i \in 1..6, j \in 1..6, c \in OptChars \cup {"b"}, d \in OptChars \cup {"g"}}
    \cup {[OptBase EXCEPT ![i] = c] : i \in 1..6, c \in OptChars}
    \cup {OptBase, SubSeq(OptBase, 1, 5), <<>>, <<"b","b","c","d","e","f">>}
    \cup {Append(OptBase, c) : c \in OptChars}

\* letter inputs the parser accepts, for the runs that start behind it
GoodLetters == { <<<<"a">>, OptBase>>,
                 <<<<"A">>, <<"b","c","D","e","f","g">>>>,
                 <<<<"H">>, <<"a","B","c","d","e","f">>>> }

MinLens == {-1, 0, 1, 2, 4, 7, 8}

WordChars == {"a", "b", "h", "A", "1"}
ShortWords == StrsOver(WordChars, 0, MaxShortLen)
LongBase == <<"a","b","c","d","e","f","g">>
LongStems == {LongBase} \cup {Append(LongBase, c) : c \in WordChars}
LongWords == LongStems \cup
             {[stem EXCEPT ![i] = c] : stem \in LongStems, i \in 1..8, c \in WordChars}
WordInputs == ShortWords \cup {w \in LongWords : Len(w) \in 7..8}

\* the words the candidate lists are made of: two of equal score, a capitalised
\* one, one with a digit, one without the required letter, one with a foreign
\* letter, a pangram, and a long word that is no pangram
ListWords ==
    { <<"a","b">>, <<"b","a">>, <<"A","b">>, <<"a","1">>, <<"b","c">>, <<"a","h">>,
      LongBase, <<"a","a","c","d","e","f","g","a">> }
ListMinLens == {0, 7}

RECURSIVE Rep(_, _)
Rep(w, n) == IF n <= 0 THEN <<>> ELSE <<w>> \o Rep(w, n - 1)

ShortLists == StrsOver(ListWords, 0, MaxWords)
\* one word ten times or more, then at most one other word
LongLists == {Rep(w, 10 + k) \o t :
                 w \in ListWords, k \in 0..MaxOverflow, t \in StrsOver(ListWords, 0, 1)}
WordLists == ShortLists \cup LongLists

\* The candidates a run can meet: load_dictionary yields no empty word, and a
\* puzzle's minimum length is at least 1; one of the two holds.
Admissible(min_len, ws) == min_len >= 1 \/ \A i \in 1..Len(ws) : Len(ws[i]) > 0

MainRequired == { <<"a">>, <<"B">>, <<"a","b">>, <<"1">> }
MainOptional == { OptBase, SubSeq(OptBase, 1, 5), <<"b","b","c","d","e","f">>,
                  <<"B","c","d","e","f","h">>, <<"b","c","d","e","1","g">> }
MainDicts == {NoPath, "missing.txt"} \cup Paths
MainMinZipfs == {-10, 0, 5, 35}
MainNTops == {3, 200000}
MainMinLens == {1, 4}

Args(required, optional, dict, min_len, allow, n_top, mz, debug) ==
    [required |-> required, optional |-> optional, dict |-> dict,
     min_len |-> min_len, allow_proper_nouns |-> allow, n_top |-> n_top,
     min_zipf |-> mz, debug |-> debug]

NoConfig == BeeConfig("", {}, 4, FALSE)
NotParsed == [ok |-> FALSE, error |-> ""]

\* what every run starts with
Fresh ==
    /\ min_zipf = None
    /\ zipf_filter = FALSE
    /\ pos = 0
    /\ stages = NoStages
    /\ samples = NoSamples
    /\ survivors = <<>>
    /\ results = None
    /\ verdict = None
    /\ pts = None
    /\ stdout = <<>>
    /\ exit_code = None

----------------------------------------------------------------------------
(* Specifications                                                          *)

\* the command-line run
Init ==
    /\ pc = "start"
    /\ \E r \in MainRequired, o \in MainOptional, d \in MainDicts, m \in MainMinLens,
          a \in BOOLEAN, n \in MainNTops, z \in MainMinZipfs, dbg \in BOOLEAN :
            args = Args(r, o, d, m, a, n, z, dbg)
    /\ env \in [wordfreq : BOOLEAN]
    /\ parsed = NotParsed
    /\ cfg = NoConfig
    /\ words = <<>>
    /\ Fresh

Next ==
    \/ ParseArgs
    \/ LoadFile
    \/ LoadFileError
    \/ LoadFallback
    \/ LoadWordfreq
    \/ FindPlain
    \/ DebugClassify
    \/ DebugFinish
    \/ Report

Spec == Init /\ [][Next]_vars

\* parse_letters on a wide range of letter inputs
InitParse ==
    /\ pc = "start"
    /\ \E r \in ReqInputs, o \in OptInputs :
            args = Args(r, o, NoPath, 4, FALSE, 200000, 35, FALSE)
    /\ env = [wordfreq |-> FALSE]
    /\ parsed = NotParsed
    /\ cfg = NoConfig
    /\ words = <<>>
    /\ Fresh

NextParse == ParseArgs

SpecParse == InitParse /\ [][NextParse]_vars

\* the configuration main builds from accepted letters
ConfigOf(letters, min_len, allow) ==
    LET p == ParseLetters(letters[1], letters[2])
    IN  BeeConfig(p.required, p.optional, min_len, allow)

\* is_valid_word and score_word on one candidate
InitWord ==
    /\ pc = "word"
    /\ \E l \in GoodLetters, m \in MinLens, a \in BOOLEAN, w \in WordInputs :
         /\ Admissible(m, <<w>>)
         /\ args = Args(l[1], l[2], NoPath, m, a, 200000, 35, FALSE)
         /\ parsed = ParseLetters(l[1], l[2])
         /\ cfg = ConfigOf(l, m, a)
         /\ words = <<w>>
    /\ env = [wordfreq |-> FALSE]
    /\ Fresh

NextWord == ValidateWord

SpecWord == InitWord /\ [][NextWord]_vars

\* find_words on a candidate list, plain or diagnostic
InitFind ==
    /\ pc = "find"
    /\ \E l \in GoodLetters, m \in ListMinLens, a \in BOOLEAN, dbg \in BOOLEAN,
          ws \in WordLists :
         /\ l[1] = <<"a">>
         /\ args = Args(l[1], l[2], NoPath, m, a, 200000, 35, dbg)
         /\ parsed = ParseLetters(l[1], l[2])
         /\ cfg = ConfigOf(l, m, a)
         /\ words = ws
    /\ env = [wordfreq |-> FALSE]
    /\ Fresh

NextFind ==
    \/ FindPlain
    \/ DebugClassify
    \/ DebugFinish

SpecFind == InitFind /\ [][NextFind]_vars

----------------------------------------------------------------------------
(* Properties                                                              *)

\* the candidate of a one-word run
TheWord == words[1]
\* the configuration with allow_proper_nouns the other way round
Flipped(c) == [c EXCEPT !.allow_proper_nouns = ~@]
HasUpper(w) == \E i \in 1..Len(w) : CharIsUpper(w[i])
\* s <= t on str
StrLeq(s, t) == ~StrLess(t, s)

\* C1: the list find_words returns with debug=True is the list it returns
\* with debug=False on the same configuration and candidates.
DebugEqualsPlain ==
    (pc = "found" /\ args.debug) =>
        /\ ~PlainRaises(cfg, words)
        /\ results = FindWordsPlain(cfg, words)

\* a diagnostic run that kept a pangram and another word and rejected a word
DebugEqualsPlainWitness ==
    /\ pc = "found"
    /\ args.debug
    /\ Len(results) >= 2
    /\ Len(results) < Len(words)
    /\ \E i \in 1..Len(results) : results[i][2]

\* C2: in the returned list no non-pangram stands before a pangram; of two
\* entries with the same pangram flag the earlier has the score that is not
\* smaller; with flag and score equal the earlier has the word that is not greater.
SortingLaw ==
    pc = "found" =>
        \A i, j \in 1..Len(results) :
            i < j =>
                LET a == results[i]
                    b == results[j]
                IN  /\ ~(b[2] /\ ~a[2])
                    /\ (a[2] = b[2]) => a[3] >= b[3]
                    /\ (a[2] = b[2] /\ a[3] = b[3]) => StrLeq(a[1], b[1])

\* a returned list the sort had to reorder: a pangram moved to the front of
\* two non-pangrams of equal score
SortingLawWitness ==
    /\ pc = "found"
    /\ Len(results) = 3
    /\ results # PlainLoop(cfg, words)
    /\ results[1][2] /\ ~results[2][2]
    /\ results[2][3] = results[3][3]
    /\ results[2][1] # results[3][1]

\* C3: is_valid_word returns pangram only with valid, and only for a word
\* whose letters include the required letter and every optional letter; a
\* valid word is a pangram exactly when its letters cover that alphabet.
PangramLaw ==
    pc = "scored" =>
        LET covers == ({cfg.required} \cup cfg.optional) \subseteq StrSet(TheWord)
        IN  /\ verdict[2] => verdict[1]
            /\ verdict[2] => covers
            /\ verdict[1] => (verdict[2] <=> covers)

\* an eight-letter pangram, accepted and flagged
PangramLawWitness ==
    /\ pc = "scored"
    /\ verdict = <<TRUE, TRUE>>
    /\ Len(TheWord) = 8

\* C4 as stated: an accepted word scores at least 1, and at least 8 exactly
\* when it is a pangram.
ScoreEightIffPangram ==
    (pc = "scored" /\ verdict[1]) =>
        /\ pts[1] >= 1
        /\ (pts[1] >= 8) <=> verdict[2]

\* C4 amended: an accepted word scores at least 1, and at least 8 exactly when
\* it is a pangram or has at least 8 letters and not the minimum length.
ScoreEightIffPangramOrLong ==
    (pc = "scored" /\ verdict[1]) =>
        /\ pts[1] >= 1
        /\ (pts[1] >= 8) <=>
              (verdict[2] \/ (Len(TheWord) >= 8 /\ Len(TheWord) # cfg.min_len))

\* an accepted eight-letter word that is no pangram and scores 8
ScoreWitness ==
    /\ pc = "scored"
    /\ verdict = <<TRUE, FALSE>>
    /\ pts = Some(8)

\* C5 as stated: an accepted configuration has an alphabet of exactly 6
\* letters and its required letter is not an optional letter.
AlphabetHasSixLetters ==
    (pc = "load" /\ parsed.ok) =>
        /\ Cardinality(Alphabet(cfg)) = 6
        /\ cfg.required \notin cfg.optional

\* the rejections C6 lists, on the lowercased inputs
LettersRejected(required, optional) ==
    LET req == StrLower(required)
        opt == StrLower(optional)
    IN  \/ ~(Len(req) = 1 /\ CharIsAlpha(req[1]))
        \/ ~(Len(opt) = 6 /\ \A i \in 1..6 : CharIsAlpha(opt[i]))
        \/ \E i \in 1..6 : opt[i] = req[1]
        \/ Cardinality({opt[i] : i \in 1..6}) < 6

FirstFailure(w) ==
    IF Len(w) < cfg.min_len THEN "too_short"
    ELSE IF (\E i \in 1..Len(w) : ~CharIsAlpha(w[i]))
            \/ (~cfg.allow_proper_nouns /\ HasUpper(w)) THEN "not_lower_or_alpha"
    ELSE IF \A i \in 1..Len(w) : w[i] # cfg.required THEN "missing_required"
    ELSE IF \E i \in 1..Len(w) : w[i] \notin Alphabet(cfg) THEN "uses_outside_letters"
    ELSE "ok"

\* C7: in diagnostic mode, after any number of candidates, each bucket counts
\* the processed candidates whose first failing check is that bucket's, the
\* counts add up to the number processed, ok counts the survivors, and no
\* bucket holds more than 10 examples.
BucketLaw ==
    (args.debug /\ pc \in {"find", "found"}) =>
        /\ \A k \in Buckets :
              /\ stages[k] = Cardinality({i \in 1..pos : FirstFailure(words[i]) = k})
              /\ Len(samples[k]) <= 10
        /\ StagesTotal(stages) = pos
        /\ stages["ok"] = Len(survivors)

\* eleven candidates in one rejection bucket, ten of them kept as examples, and
\* a twelfth candidate in another bucket
BucketLawWitness ==
    /\ args.debug
    /\ pos = 12
    /\ \E k \in Buckets \ {"ok"} : stages[k] = 11 /\ Len(samples[k]) = 10
    /\ \E k \in Buckets : stages[k] = 1

\* C8 as stated: with --min-zipf <= 0 main hands None to load_dictionary and
\* the threshold filter is not applied to the wordfreq list; with a value > 0
\* the value is handed on and the filter applied.
ZeroDisablesFilter ==
    (pc \in {"find", "found", "done"} /\ args.dict = NoPath /\ env.wordfreq) =>
        /\ args.min_zipf <= 0 => (min_zipf = None /\ ~zipf_filter)
        /\ args.min_zipf > 0 => (min_zipf = Some(args.min_zipf) /\ zipf_filter)

\* C9: a run whose letters the parser refuses stops at the parser: it never
\* reaches the loader or the finder, prints nothing, ends with a non-zero
\* exit code, and takes no further step.
AbortAtParsing ==
    (pc # "start" /\ LettersRejected(args.required, args.optional)) =>
        /\ pc = "raised"
        /\ ~parsed.ok
        /\ words = <<>>
        /\ results = None
        /\ pos = 0
        /\ stdout = <<>>
        /\ exit_code # None
        /\ exit_code # Some(0)
        /\ ~ENABLED Next

\* a run refused for a repeated optional letter
AbortWitness ==
    /\ pc = "raised"
    /\ args.required = <<"a">>
    /\ args.optional = <<"b","b","c","d","e","f">>
    /\ exit_code = Some(1)

====
